---------------------------- MODULE Spec2Model ----------------------------
(***************************************************************************)
(* Model of the neighbor crawler of src/src/index.ts (the revision of      *)
(* lines 114-300): scanNeighbors, its worker queue, queryNodeNeighbors     *)
(* and the post-crawl cleanup and reconciliation.                          *)
(*                                                                         *)
(* JavaScript runs one callback at a time, so every action below is one    *)
(* synchronous run of the code between two suspension points (await).      *)
(* Set and Map are insertion ordered in JavaScript: they are modelled as   *)
(* sequences without repeated elements / keys wherever the code iterates   *)
(* over them.                                                              *)
(***************************************************************************)
EXTENDS Integers, Sequences, FiniteSets, TLC

\* ------------------------------------------------------------------ bounds

\* queryNodeNeighbors is run with retries drawn from 0..MaxRetries
\* (the code's default is 16, line 175).
MaxRetries == 2

\* The worker queue is built with a concurrency drawn from 1..MaxConcurrency
\* (the code uses 50, line 210).
MaxConcurrency == 2

\* ------------------------------------------------------- program constants

RPC_PORT == 20443

\* ----------------------------------------------------------------- helpers

Range(s) == {s[j] : j \in 1..Len(s)}

\* Set.prototype.add on an insertion-ordered set
SetAdd(s, x) == IF x \in Range(s) THEN s ELSE Append(s, x)

\* Set.prototype.delete
SetDelete(s, x) == SelectSeq(s, LAMBDA y : y # x)

RECURSIVE SetAddAll(_, _)
\* xs.forEach(x => s.add(x))
SetAddAll(s, xs) ==
    IF xs = <<>> THEN s ELSE SetAddAll(SetAdd(s, Head(xs)), Tail(xs))

\* [...new Set(xs)]
Dedup(xs) == SetAddAll(<<>>, xs)

\* A Map is a sequence of entries [k, v] with distinct keys, in insertion order.
MapKeys(m) == {m[j].k : j \in 1..Len(m)}

MapHas(m, key) == key \in MapKeys(m)

MapValue(m, key) == m[CHOOSE j \in 1..Len(m) : m[j].k = key].v

\* Map.prototype.set: an existing key keeps its place and takes the new value
MapSet(m, key, val) ==
    IF MapHas(m, key)
    THEN [j \in 1..Len(m) |-> IF m[j].k = key THEN [k |-> key, v |-> val] ELSE m[j]]
    ELSE Append(m, [k |-> key, v |-> val])

\* ------------------------------------------------------------ data model

\* A Neighbor record as a peer reports it; port stands for the fields the
\* crawler never reads (network_id, peer_version, port, authenticated).
Neighbor(ip, hash, port) == [ip |-> ip, public_key_hash |-> hash, port |-> port]

\* `${n.ip}@${n.public_key_hash}`
NeighborID(n) == n.ip \o "@" \o n.public_key_hash

\* The hexadecimal digits of the public-key hashes that occur in the model.
HexDigits(h) ==
    CASE h = "0" -> <<0>>
      [] h = "00" -> <<0, 0>>
      [] h = "abc123" -> <<10, 11, 12, 1, 2, 3>>
      [] h = "def456" -> <<13, 14, 15, 4, 5, 6>>

RECURSIVE HexValue(_, _)
HexValue(ds, acc) ==
    IF ds = <<>> THEN acc ELSE HexValue(Tail(ds), 16 * acc + Head(ds))

\* BigInt('0x' + h)
BigInt0x(h) == HexValue(HexDigits(h), 0)

\* getQueryUrls(nodeUrl)
getQueryUrls(nodeUrl) ==
    Dedup(<<nodeUrl, nodeUrl \o ":" \o ToString(RPC_PORT)>>)

\* The body of one /v2/neighbors response
Neighbors(sample, inbound, outbound) ==
    [sample |-> sample, inbound |-> inbound, outbound |-> outbound]

NoNeighbors == Neighbors(<<>>, <<>>, <<>>)

\* ------------------------------------------------- configurations crawled

\* Scenario A of the design: the seed reports two peers, one of them reports
\* the seed back, under a different key from each of its endpoint forms; the
\* two endpoint forms of the seed report different lists.
ScenarioA ==
    [seedNodes |-> <<"seedA">>,
     network |->
        ("seedA" :> Neighbors(<<Neighbor("1.2.3.4", "abc123", 1)>>, <<>>, <<>>)) @@
        ("seedA:20443" :> Neighbors(<<Neighbor("1.2.3.4", "abc123", 1)>>, <<>>,
                                    <<Neighbor("5.6.7.8", "def456", 1)>>)) @@
        ("5.6.7.8" :> Neighbors(<<>>, <<>>, <<Neighbor("seedA", "abc123", 1)>>)) @@
        ("5.6.7.8:20443" :> Neighbors(<<>>, <<Neighbor("seedA", "def456", 1)>>, <<>>))]

\* Scenario B of the design: a seed that carries the RPC port (line 122) and
\* reports a zero-hash and an identified record of one IP, and 0.0.0.0.
ScenarioB ==
    [seedNodes |-> <<"seed-0.mainnet.stacks.co:20443">>,
     network |->
        ("seed-0.mainnet.stacks.co:20443" :>
            Neighbors(<<Neighbor("9.9.9.9", "0", 1), Neighbor("9.9.9.9", "abc123", 1)>>,
                      <<Neighbor("0.0.0.0", "00", 1)>>, <<>>)) @@
        ("9.9.9.9" :>
            Neighbors(<<Neighbor("9.9.9.9", "abc123", 2)>>, <<>>,
                      <<Neighbor("seed-0.mainnet.stacks.co:20443", "def456", 1)>>)) @@
        ("9.9.9.9:20443" :>
            Neighbors(<<Neighbor("9.9.9.9", "def456", 1)>>, <<>>, <<>>))]

\* Two seeds that report the same peer, its records in opposite orders, and
\* the port-suffixed form of the other seed.
ScenarioC ==
    [seedNodes |-> <<"seedA", "seedB">>,
     network |->
        ("seedA" :>
            Neighbors(<<Neighbor("9.9.9.9", "abc123", 1), Neighbor("9.9.9.9", "0", 1)>>,
                      <<>>, <<>>)) @@
        ("seedB:20443" :>
            Neighbors(<<Neighbor("9.9.9.9", "0", 2)>>,
                      <<Neighbor("9.9.9.9", "abc123", 2)>>,
                      <<Neighbor("seedA:20443", "def456", 1)>>))]

\* Scenario C of the design: three discoverable addresses behind one seed.
ScenarioD ==
    [seedNodes |-> <<"seedA">>,
     network |->
        ("seedA:20443" :>
            Neighbors(<<Neighbor("1.1.1.1", "abc123", 1)>>,
                      <<Neighbor("2.2.2.2", "def456", 1)>>,
                      <<Neighbor("3.3.3.3", "0", 1)>>)) @@
        ("2.2.2.2" :> Neighbors(<<Neighbor("1.1.1.1", "abc123", 2)>>, <<>>, <<>>))]

Scenarios == {ScenarioA, ScenarioB, ScenarioC, ScenarioD}

\* The IPs a response names
IpsOf(result) ==
    {n.ip : n \in Range(result.sample) \cup Range(result.inbound)
                                       \cup Range(result.outbound)}

\* What the endpoint at url answers when a request to it succeeds
ResponseOf(net, url) == IF url \in DOMAIN net THEN net[url] ELSE NoNeighbors

\* ------------------------------------------------------------------ state

VARIABLES
    seedNodes,        \* the seed list (line 120), fixed during a crawl
    network,          \* url -> Neighbors: what each endpoint answers
    retries,          \* the retries argument of queryNodeNeighbors (line 175)
    concurrency,      \* the concurrency of requestQueue (line 210)
    foundIps,         \* line 206, in insertion order
    responsiveIps,    \* line 207
    queriedIps,       \* line 208
    uniqueNeighbors,  \* line 205, entries in insertion order
    tasks,            \* every task given to requestQueue.add, in order
    pc,               \* where scanNeighbors is: "start", "awaitIdle", "done"
                      \* ("crashed": the runtime has ended the process)
    atIdle,           \* the crawl state when requestQueue.onIdle() resolved
    reported          \* the IPs of every well-formed response received so far

vars == <<seedNodes, network, retries, concurrency, foundIps, responsiveIps,
          queriedIps, uniqueNeighbors, tasks, pc, atIdle, reported>>

config == <<seedNodes, network, retries, concurrency>>

\* ------------------------------------------------- queryNodeNeighbors

\* A task of requestQueue: the address it queries, where it is
\*   "queued"   waiting in the queue
\*   "fetch"    a request to urls[u], try i, is under way (lines 186-187)
\*   "wait"     in wait(1500) after a failed try (line 195)
\*   "returned" queryNodeNeighbors has returned, the task body has not resumed
\*   "resolved" the task body has run, the queue has not yet taken note
\*   "done"     finished
\* the locals of queryNodeNeighbors (ips, uniqueNeighbors, responsive), and
\* nreq[j], the number of requests issued to urls[j] so far, and ok, whether
\* some request was answered with a well-formed body.
NewTask(ip) ==
    [ip |-> ip, st |-> "queued", u |-> 0, i |-> 0,
     ips |-> <<>>, uniqueNeighbors |-> <<>>, responsive |-> FALSE,
     nreq |-> [j \in 1..Len(getQueryUrls(ip)) |-> 0], ok |-> FALSE]

RECURSIVE EnterIteration(_, _, _, _)
\* The loop conditions of lines 179-180 at url u and try i: issue the request
\* of the next iteration, or leave the loops and return (line 201).
EnterIteration(t, u, i, n) ==
    IF u > Len(getQueryUrls(t.ip)) THEN [t EXCEPT !.st = "returned"]
    ELSE IF i < n
         THEN [t EXCEPT !.st = "fetch", !.u = u, !.i = i,
                        !.nreq = [t.nreq EXCEPT ![u] = @ + 1]]
         ELSE EnterIteration(t, u + 1, 0, n)

\* The task starts: queryNodeNeighbors runs up to its first await.
StartTask(t, n) == EnterIteration(t, 1, 0, n)

\* i++ at the end of an iteration (line 180)
NextIteration(t, n) == EnterIteration(t, t.u, t.i + 1, n)

\* const allNeighbors = [...result.sample, ...result.inbound, ...result.outbound]
AllNeighbors(result) == result.sample \o result.inbound \o result.outbound

RECURSIVE MapSetAll(_, _)
\* allNeighbors.forEach(n => uniqueNeighbors.set(`${n.ip}@${n.public_key_hash}`, n))
MapSetAll(m, ns) ==
    IF ns = <<>> THEN m
    ELSE MapSetAll(MapSet(m, NeighborID(Head(ns)), Head(ns)), Tail(ns))

\* Lines 188-191: a response whose body parsed into a Neighbors object
OnResult(t, result) ==
    [t EXCEPT !.responsive = TRUE,
              !.ips = SetAddAll(@, [j \in 1..Len(AllNeighbors(result)) |->
                                        AllNeighbors(result)[j].ip]),
              !.uniqueNeighbors = MapSetAll(@, AllNeighbors(result)),
              !.ok = TRUE]

\* Lines 192-197: the catch branch
OnError(t, n) ==
    IF t.i < n
    THEN [t EXCEPT !.st = "wait"]
    ELSE NextIteration(t, n)

\* ------------------------------------------------------- requestQueue

Running == {"fetch", "wait", "returned", "resolved"}

\* p-queue's pending count
PendingCount(ts) == Cardinality({j \in 1..Len(ts) : ts[j].st \in Running})

\* p-queue's queue size
QueueSize(ts) == Cardinality({j \in 1..Len(ts) : ts[j].st = "queued"})

\* What requestQueue.onIdle() waits for
Idle(ts) == PendingCount(ts) = 0 /\ QueueSize(ts) = 0

\* Faulty variant of MayStart: one job more than the concurrency may be pending.
MayStart_OneMore(ts, c) == PendingCount(ts) <= c

\* Faulty variant of MayStart: the last slot of the queue is never used.
MayStart_OneLess(ts, c) == PendingCount(ts) < c - 1

\* p-queue starts a job only while fewer than concurrency jobs are pending
MayStart(ts, c) == PendingCount(ts) < c

\* Faulty variant of TryToStartAnother: only the job added last is started, a
\* job that had to wait behind others is never taken from the queue.
TryToStartAnother_OnlyNewest(ts, c, n) ==
    IF ts # <<>> /\ ts[Len(ts)].st = "queued" /\ MayStart(ts, c)
    THEN [ts EXCEPT ![Len(ts)] = StartTask(ts[Len(ts)], n)]
    ELSE ts

\* p-queue's _tryToStartAnother: start the job at the head of the queue
TryToStartAnother(ts, c, n) ==
    IF QueueSize(ts) > 0 /\ MayStart(ts, c)
    THEN LET j == CHOOSE j \in 1..Len(ts) :
                     /\ ts[j].st = "queued"
                     /\ \A h \in 1..(j - 1) : ts[h].st # "queued"
         IN  [ts EXCEPT ![j] = StartTask(ts[j], n)]
    ELSE ts

\* requestQueue.add(task): enqueue, then _tryToStartAnother
QueueAdd(ts, ip, c, n) == TryToStartAnother(Append(ts, NewTask(ip)), c, n)

\* ------------------------------------------------------- scanNeighbors

\* Faulty variant of getIpsToQuery: addresses already queried are not filtered out.
getIpsToQuery_NoFilter(found, queried) == found

\* getIpsToQuery (lines 212-220)
getIpsToQuery(found, queried) == SelectSeq(found, LAMBDA ip : ip \notin queried)

RECURSIVE Dispatch(_, _, _, _, _)
\* The forEach of queueQueries (lines 225-241): mark queried, add the task.
\* (added ranges over a one-element set: the queue after the add is computed
\* once and then named.)
Dispatch(ips, queried, ts, c, n) ==
    IF ips = <<>> THEN [queriedIps |-> queried, tasks |-> ts]
    ELSE CHOOSE r \in {Dispatch(Tail(ips), queried \cup {Head(ips)}, added, c, n) :
                          added \in {QueueAdd(ts, Head(ips), c, n)}} : TRUE

\* Faulty variant of queueQueries: only the first call, with no task submitted yet,
\* expands the frontier.
queueQueries_OnlyFirst(found, queried, ts, c, n) ==
    IF ts = <<>>
    THEN Dispatch(getIpsToQuery(found, queried), queried, ts, c, n)
    ELSE [queriedIps |-> queried, tasks |-> ts]

\* queueQueries (lines 224-242)
queueQueries(found, queried, ts, c, n) ==
    Dispatch(getIpsToQuery(found, queried), queried, ts, c, n)

\* Faulty variant of MarkResponsive: the addresses the peer reported are marked.
MarkResponsive_Reported(responsive, t) ==
    IF t.responsive THEN responsive \cup Range(t.ips) ELSE responsive

\* Lines 229-231
MarkResponsive(responsive, t) ==
    IF t.responsive THEN responsive \cup {t.ip} ELSE responsive

\* Faulty variant of MergeFound: only the first reported address is added.
MergeFound_FirstOnly(found, ips) ==
    IF ips = <<>> THEN found ELSE SetAdd(found, Head(ips))

\* result.neighbors.forEach(n => foundIps.add(n)) (line 232)
MergeFound(found, ips) == SetAddAll(found, ips)

RECURSIVE MergeNeighbors_LastWins(_, _)
\* Faulty variant of MergeNeighbors: the has() test of line 234 is missing.
MergeNeighbors_LastWins(m, incoming) ==
    IF incoming = <<>> THEN m
    ELSE MergeNeighbors_LastWins(MapSet(m, Head(incoming).k, Head(incoming).v),
                                 Tail(incoming))

RECURSIVE MergeNeighbors(_, _)
\* Lines 233-238: a key the crawl does not hold yet is inserted
MergeNeighbors(m, incoming) ==
    IF incoming = <<>> THEN m
    ELSE MergeNeighbors(
             IF ~MapHas(m, Head(incoming).k)
             THEN MapSet(m, Head(incoming).k, Head(incoming).v)
             ELSE m,
             Tail(incoming))

RECURSIVE DeleteAll(_, _)
DeleteAll(s, xs) ==
    IF xs = <<>> THEN s ELSE DeleteAll(SetDelete(s, Head(xs)), Tail(xs))

RECURSIVE SeedForms(_)
\* seedNodes.map(n => getQueryUrls(n)).flat() (line 248)
SeedForms(seeds) ==
    IF seeds = <<>> THEN <<>> ELSE getQueryUrls(Head(seeds)) \o SeedForms(Tail(seeds))

\* Faulty variant of CleanFound: as in the revision of line 89, only the seeds as
\* listed are deleted.
CleanFound_SeedsOnly(found, seeds) == DeleteAll(found, seeds)

\* Lines 248-252 on foundIps
CleanFound(found, seeds) == SetDelete(DeleteAll(found, SeedForms(seeds)), "0.0.0.0")

\* Faulty variant of CleanResponsive: as in the revision of line 89, only foundIps
\* is cleaned.
CleanResponsive_Not(responsive, seeds) == responsive

\* Lines 248-251 on responsiveIps
CleanResponsive(responsive, seeds) == responsive \ Range(SeedForms(seeds))

\* Faulty variant of Unidentified: the test of line 255 left out, every record
\* displaces the other entries of its IP.
Unidentified_Any(n) == TRUE

\* The test of line 255
Unidentified(n) == BigInt0x(n.public_key_hash) = 0 \/ n.ip = "0.0.0.0"

RECURSIVE ReconcileFrom(_, _, _)
\* Lines 254-262. Map.prototype.forEach visits the entries in insertion order
\* and skips an entry deleted before its turn: j is the place reached in the
\* entries m held at the start, del the keys deleted so far.
ReconcileFrom(m, j, del) ==
    IF j > Len(m) THEN SelectSeq(m, LAMBDA e : e.k \notin del)
    ELSE IF m[j].k \notin del /\ Unidentified(m[j].v)
         THEN ReconcileFrom(m, j + 1,
                  del \cup {m[h].k : h \in {h \in 1..Len(m) :
                                /\ m[h].k \notin del
                                /\ m[h].v.ip = m[j].v.ip
                                /\ m[h].k # m[j].k}})
         ELSE ReconcileFrom(m, j + 1, del)

Reconcile(m) == ReconcileFrom(m, 1, {})

\* ---------------------------------------------------------------- actions

NoSnapshot == [foundIps |-> <<>>, responsiveIps |-> {}, uniqueNeighbors |-> <<>>]

Init ==
    /\ \E sc \in Scenarios :
          /\ seedNodes = sc.seedNodes
          /\ network = sc.network
    /\ retries \in 0..MaxRetries
    /\ concurrency \in 1..MaxConcurrency
    /\ foundIps = <<>>
    /\ responsiveIps = {}
    /\ queriedIps = {}
    /\ uniqueNeighbors = <<>>
    /\ tasks = <<>>
    /\ pc = "start"
    /\ atIdle = NoSnapshot
    /\ reported = {}

\* scanNeighbors up to its await (lines 205-246): the seeds are found, the
\* first queueQueries() dispatches them, the crawl waits for the queue.
ScanStart ==
    /\ pc = "start"
    /\ \E found \in {SetAddAll(foundIps, seedNodes)} :
       \E q \in {queueQueries(found, queriedIps, tasks, concurrency, retries)} :
           /\ foundIps' = found
           /\ queriedIps' = q.queriedIps
           /\ tasks' = q.tasks
    /\ pc' = "awaitIdle"
    /\ UNCHANGED <<config, responsiveIps, uniqueNeighbors, atIdle, reported>>

\* The request of task k is answered with a well-formed body (lines 186-191);
\* the loop goes on to its next iteration.
ResponseOk(k) ==
    /\ tasks[k].st = "fetch"
    /\ \E result \in {ResponseOf(network, getQueryUrls(tasks[k].ip)[tasks[k].u])} :
       \E t \in {OnResult(tasks[k], result)} :
           /\ tasks' = [tasks EXCEPT ![k] = NextIteration(t, retries)]
           /\ reported' = reported \cup IpsOf(result)
    /\ UNCHANGED <<config, foundIps, responsiveIps, queriedIps, uniqueNeighbors,
                   pc, atIdle>>

\* The request of task k is answered with a body that parses as JSON and has
\* no neighbor lists: line 188 has run when line 189 throws.
ResponseMalformed(k) ==
    /\ tasks[k].st = "fetch"
    /\ \E t \in {[tasks[k] EXCEPT !.responsive = TRUE]} :
           tasks' = [tasks EXCEPT ![k] = OnError(t, retries)]
    /\ UNCHANGED <<config, foundIps, responsiveIps, queriedIps, uniqueNeighbors,
                   pc, atIdle, reported>>

\* The request of task k fails: refused, aborted after 15 s, or not JSON.
ResponseError(k) ==
    /\ tasks[k].st = "fetch"
    /\ tasks' = [tasks EXCEPT ![k] = OnError(tasks[k], retries)]
    /\ UNCHANGED <<config, foundIps, responsiveIps, queriedIps, uniqueNeighbors,
                   pc, atIdle, reported>>

\* wait(1500) of task k is over (line 195)
WaitOver(k) ==
    /\ tasks[k].st = "wait"
    /\ tasks' = [tasks EXCEPT ![k] = NextIteration(tasks[k], retries)]
    /\ UNCHANGED <<config, foundIps, responsiveIps, queriedIps, uniqueNeighbors,
                   pc, atIdle, reported>>

\* The task of line 227 once its body has run: result is dropped
Resolved(t) ==
    [t EXCEPT !.st = "resolved", !.ips = <<>>, !.uniqueNeighbors = <<>>,
              !.responsive = FALSE, !.ok = FALSE]

\* The task body after its await (lines 229-239)
TaskBody(k) ==
    /\ tasks[k].st = "returned"
    /\ \E t \in {tasks[k]} :
       \E found \in {MergeFound(foundIps, t.ips)} :
       \E q \in {queueQueries(found, queriedIps,
                               [tasks EXCEPT ![k] = Resolved(t)],
                               concurrency, retries)} :
           /\ responsiveIps' = MarkResponsive(responsiveIps, t)
           /\ foundIps' = found
           /\ uniqueNeighbors' = MergeNeighbors(uniqueNeighbors, t.uniqueNeighbors)
           /\ queriedIps' = q.queriedIps
           /\ tasks' = q.tasks
    /\ UNCHANGED <<config, pc, atIdle, reported>>

\* The queue takes note that task k is over and starts the next queued one.
TaskDone(k) ==
    /\ tasks[k].st = "resolved"
    /\ \E ts \in {[tasks EXCEPT ![k].st = "done"]} :
           tasks' = TryToStartAnother(ts, concurrency, retries)
    /\ UNCHANGED <<config, foundIps, responsiveIps, queriedIps, uniqueNeighbors,
                   pc, atIdle, reported>>

\* requestQueue.onIdle() has resolved: cleanup and reconciliation
\* (lines 248-262); the report that follows changes nothing.
ScanFinish ==
    /\ pc = "awaitIdle"
    /\ Idle(tasks)
    /\ atIdle' = [foundIps |-> foundIps, responsiveIps |-> responsiveIps,
                  uniqueNeighbors |-> uniqueNeighbors]
    /\ foundIps' = CleanFound(foundIps, seedNodes)
    /\ responsiveIps' = CleanResponsive(responsiveIps, seedNodes)
    /\ uniqueNeighbors' = Reconcile(uniqueNeighbors)
    /\ pc' = "done"
    /\ UNCHANGED <<config, queriedIps, tasks, reported>>

Next ==
    \/ ScanStart
    \/ \E k \in 1..Len(tasks) : ResponseOk(k)
    \/ \E k \in 1..Len(tasks) : ResponseMalformed(k)
    \/ \E k \in 1..Len(tasks) : ResponseError(k)
    \/ \E k \in 1..Len(tasks) : WaitOver(k)
    \/ \E k \in 1..Len(tasks) : TaskBody(k)
    \/ \E k \in 1..Len(tasks) : TaskDone(k)
    \/ ScanFinish

Spec == Init /\ [][Next]_vars

\* Every callback that is ready runs, every request settles (the abort timer
\* of line 185 bounds it) and every wait(1500) ends.
FairSpec == Spec /\ WF_vars(Next)

\* ------------------------------------------------------------ properties

\* The queue is idle and scanNeighbors has not resumed yet.
AtIdle == pc = "awaitIdle" /\ Idle(tasks)

\* C1 (completeness): whenever the queue is idle after the initial
\* queueQueries() call, until scanNeighbors resumes, queried equals found.
C1_Completeness == AtIdle => Range(foundIps) = queriedIps

\* C1 witness: the queue is idle after a crawl that discovered addresses
\* beyond the seeds.
C1_Witness ==
    /\ AtIdle
    /\ Len(foundIps) >= Len(seedNodes) + 2
    /\ Range(foundIps) = queriedIps

\* C2 (no duplicate dispatch): no two tasks submitted to the queue are for the
\* same address, and an address is in queried from the step that submits its
\* task, so before any request for it is issued.
C2_NoDuplicateDispatch ==
    /\ \A j, h \in 1..Len(tasks) : tasks[j].ip = tasks[h].ip => j = h
    /\ queriedIps = {tasks[j].ip : j \in 1..Len(tasks)}

\* C2 witness: a task in flight is about to report an address whose own task,
\* submitted on another task's report, is already in flight.
C2_Witness ==
    \E j, h \in 1..Len(tasks) :
        /\ j # h
        /\ tasks[j].ip \in Range(seedNodes)
        /\ tasks[j].st = "returned"
        /\ tasks[h].ip \notin Range(seedNodes)
        /\ tasks[h].ip \in Range(tasks[j].ips)
        /\ tasks[h].st \in Running

\* C3 (termination): if every request settles and every callback runs, the
\* crawl reaches the idle state and scanNeighbors goes on to its cleanup.
C3_Termination == <>(pc = "done")

\* C3 witness: a finished crawl in which a peer reported the seed back (a
\* cycle) and another peer never answered.
C3_Witness ==
    /\ pc = "done"
    /\ seedNodes = ScenarioA.seedNodes
    /\ "seedA" \in reported
    /\ "1.2.3.4" \in queriedIps
    /\ "1.2.3.4" \notin atIdle.responsiveIps

\* C4 (bounded concurrency): the tasks started and not yet completed never
\* outnumber the concurrency, and a queued task starts only in a step in
\* which the queue takes note that a running task is over.
C4_BoundedConcurrency ==
    [][/\ PendingCount(tasks') <= concurrency
       /\ \A k \in 1..Len(tasks) :
             tasks[k].st = "queued" /\ tasks'[k].st # "queued" =>
                \E h \in 1..Len(tasks) :
                    tasks[h].st = "resolved" /\ tasks'[h].st = "done"]_vars

\* C4 witness: the queue is at capacity and an address found during the crawl
\* waits in it.
C4_Witness ==
    /\ PendingCount(tasks) = concurrency
    /\ \E k \in 1..Len(tasks) :
          tasks[k].st = "queued" /\ tasks[k].ip \notin Range(seedNodes)

\* C5 (bounded retries), as claimed: when every request of a task failed,
\* queryNodeNeighbors(address, retries), with retries positive, has issued
\* exactly retries + 1 requests to each candidate endpoint when it returns.
C5_BoundedRetries_Claim ==
    \A k \in 1..Len(tasks) :
        tasks[k].st = "returned" /\ ~tasks[k].responsive /\ retries > 0 =>
            \A j \in 1..Len(tasks[k].nreq) : tasks[k].nreq[j] = retries + 1

\* A record with a non-zero public-key hash and an IP other than 0.0.0.0
FullyIdentified(n) == BigInt0x(n.public_key_hash) # 0 /\ n.ip # "0.0.0.0"

\* C6 (reconciliation), as claimed: after the reconciliation pass, an IP that
\* had a fully-identified record before the pass has no record with a zero
\* public-key hash left.
C6_Reconciliation_Claim ==
    pc = "done" =>
        \A j \in 1..Len(atIdle.uniqueNeighbors) :
            FullyIdentified(atIdle.uniqueNeighbors[j].v) =>
                \A h \in 1..Len(uniqueNeighbors) :
                    uniqueNeighbors[h].v.ip = atIdle.uniqueNeighbors[j].v.ip =>
                        BigInt0x(uniqueNeighbors[h].v.public_key_hash) # 0

\* s suffixed with the default RPC port
WithPort(s) == s \o ":" \o ToString(RPC_PORT)

\* C7 (seed exclusion): after the cleanup, no seed and no seed suffixed with
\* the default RPC port is in found or in responsive.
C7_SeedExclusion ==
    pc = "done" =>
        \A j \in 1..Len(seedNodes) :
            \A f \in {seedNodes[j], WithPort(seedNodes[j])} :
                f \notin Range(foundIps) /\ f \notin responsiveIps

\* C7 witness: a finished crawl in which a seed and its port-suffixed form
\* were both found and both responsive when the queue went idle.
C7_Witness ==
    /\ pc = "done"
    /\ \E j \in 1..Len(seedNodes) :
          /\ seedNodes[j] \in atIdle.responsiveIps
          /\ WithPort(seedNodes[j]) \in atIdle.responsiveIps
          /\ WithPort(seedNodes[j]) \in Range(atIdle.foundIps)

\* C8 (first-seen wins): while the crawl runs no key of the identity map is
\* removed or given another record; the step of a task body adds exactly the
\* keys of its result that were missing, and merging the result once more
\* would change nothing.
C8_FirstSeenWins ==
    [][pc' # "done" =>
        /\ \A key \in MapKeys(uniqueNeighbors) :
              /\ MapHas(uniqueNeighbors', key)
              /\ MapValue(uniqueNeighbors', key) = MapValue(uniqueNeighbors, key)
        /\ \A k \in 1..Len(tasks) :
              tasks[k].st = "returned" /\ tasks'[k].st = "resolved" =>
                 /\ MapKeys(uniqueNeighbors') =
                       MapKeys(uniqueNeighbors) \cup MapKeys(tasks[k].uniqueNeighbors)
                 /\ \A key \in MapKeys(tasks[k].uniqueNeighbors) \ MapKeys(uniqueNeighbors) :
                       MapValue(uniqueNeighbors', key) =
                          MapValue(tasks[k].uniqueNeighbors, key)
                 /\ MergeNeighbors(uniqueNeighbors', tasks[k].uniqueNeighbors) =
                       uniqueNeighbors'
       ]_vars

\* C8 witness: the peer 9.9.9.9 has answered on its bare address, where it
\* reports port 2 under the key 9.9.9.9@abc123, its task is over, and the
\* identity map still holds the record with port 1 that the seed reported.
C8_Witness ==
    /\ seedNodes = ScenarioB.seedNodes
    /\ "seed-0.mainnet.stacks.co:20443" \in reported
    /\ \E k \in 1..Len(tasks) : tasks[k].ip = "9.9.9.9" /\ tasks[k].st = "done"
    /\ MapHas(uniqueNeighbors, "9.9.9.9@abc123")
    /\ MapValue(uniqueNeighbors, "9.9.9.9@abc123").port = 1

\* C9 (completeness over reachable peers): at idle, before the cleanup, found
\* holds the seeds and the IPs named in the well-formed responses received,
\* and nothing else, and each of them has been queried.  In Scenario A, when
\* exactly seedA and 5.6.7.8 were responsive, the final sets are
\* found = {1.2.3.4, 5.6.7.8} and responsive = {5.6.7.8}.
C9_ReachableFound ==
    /\ AtIdle =>
          /\ Range(foundIps) = Range(seedNodes) \cup reported
          /\ queriedIps = Range(foundIps)
    /\ (/\ pc = "done"
        /\ seedNodes = ScenarioA.seedNodes
        /\ network = ScenarioA.network
        /\ atIdle.responsiveIps = {"seedA", "5.6.7.8"})
       => /\ Range(foundIps) = {"1.2.3.4", "5.6.7.8"}
          /\ responsiveIps = {"5.6.7.8"}

\* C9 witness: Scenario A has run to its end with seedA and 5.6.7.8
\* responsive and 1.2.3.4 not.
C9_Witness ==
    /\ pc = "done"
    /\ seedNodes = ScenarioA.seedNodes
    /\ atIdle.responsiveIps = {"seedA", "5.6.7.8"}
    /\ "1.2.3.4" \in queriedIps

\* C10 (set inclusion): until scanNeighbors resumes after the idle signal,
\* queried is a subset of found and responsive a subset of queried, and a
\* step adds an address to responsive only if it is the task body of that
\* address's own task.
C10_SetInclusion ==
    [][/\ pc' # "done" =>
             /\ queriedIps' \subseteq Range(foundIps')
             /\ responsiveIps' \subseteq queriedIps'
       /\ \A a \in responsiveIps' \ responsiveIps :
             \E k \in 1..Len(tasks) :
                 /\ tasks[k].ip = a
                 /\ tasks[k].st = "returned"
                 /\ tasks'[k].st = "resolved"
      ]_vars

\* C10 witness: during the crawl some queried address is responsive, another
\* is not, and a found address has been reported by a peer.
C10_Witness ==
    /\ pc = "awaitIdle"
    /\ responsiveIps # {}
    /\ responsiveIps # queriedIps
    /\ Len(foundIps) > Len(seedNodes)

\* ------------------------------------------------------------------- C11

\* The task of address a has been started and has run to its end
TaskCompleted(a) ==
    \E k \in 1..Len(tasks) : tasks[k].ip = a /\ tasks[k].st = "done"

\* C11: every address that enters found is eventually inserted into queried
\* and its task eventually starts and completes, whatever the concurrency
\* (1 included), given that every request returns.
\* (found only grows until the cleanup, of which atIdle keeps the state
\* before: the two together hold every address that ever entered found.)
C11_EveryAddressDone ==
    <>[](\A a \in Range(foundIps) \cup Range(atIdle.foundIps) :
             a \in queriedIps /\ TaskCompleted(a))

\* Concurrency 1 and three discoverable addresses behind the seed: the
\* three tasks, started one after the other, have all completed.
C11_Witness ==
    /\ concurrency = 1
    /\ seedNodes = ScenarioD.seedNodes /\ network = ScenarioD.network
    /\ {"1.1.1.1", "2.2.2.2", "3.3.3.3"} \subseteq Range(atIdle.foundIps)
    /\ \A a \in {"1.1.1.1", "2.2.2.2", "3.3.3.3"} : TaskCompleted(a)

\* ------------------------------------------------------------------- C12

\* The task of line 227 once its body has thrown: its promise is rejected
Threw(t) == [Resolved(t) EXCEPT !.st = "threw"]

\* The defect the claim supposes: the body of task k throws after its await
\* (line 228), at the merge into foundIps (at = "found", line 232) or at the
\* merge into uniqueNeighbors (at = "identities", lines 233-237); what ran
\* before stays done, queueQueries() (line 238) is not reached. p-queue
\* rejects the promise requestQueue.add returned and goes on to its next
\* job. Nothing holds that promise: line 227 drops it.
TaskBodyThrows(k, at) ==
    /\ pc = "awaitIdle"
    /\ tasks[k].st = "returned"
    /\ \E t \in {tasks[k]} :
       \E ts \in {[tasks EXCEPT ![k] = Threw(t)]} :
           /\ responsiveIps' = MarkResponsive(responsiveIps, t)
           /\ foundIps' = IF at = "identities" THEN MergeFound(foundIps, t.ips)
                                               ELSE foundIps
           /\ tasks' = TryToStartAnother(ts, concurrency, retries)
    /\ UNCHANGED <<config, queriedIps, uniqueNeighbors, pc, atIdle, reported>>

TaskThrew == \E k \in 1..Len(tasks) : tasks[k].st = "threw"

\* The rejection no one handles ends the process where the runtime treats
\* an unhandled rejection as fatal; where it only warns, this step never
\* happens and the crawl goes on. Neither way passes through the catch of
\* line 297, which sees only what scanNeighbors itself awaits (line 246).
UnhandledRejection ==
    /\ pc = "awaitIdle"
    /\ TaskThrew
    /\ pc' = "crashed"
    /\ UNCHANGED <<config, foundIps, responsiveIps, queriedIps, uniqueNeighbors,
                   tasks, atIdle, reported>>

FaultNext ==
    \/ pc # "crashed" /\ Next
    \/ \E k \in 1..Len(tasks) : \E at \in {"found", "identities"} :
          TaskBodyThrows(k, at)
    \/ UnhandledRejection

\* The crawl with a defective task body
FaultSpec == Init /\ [][FaultNext]_vars

\* The crawl is over: reported ("done"), ended by the runtime ("crashed"),
\* or ended in the handler of line 297 ("failed")
Ended == pc \in {"done", "crashed", "failed"}

\* C12: an error raised in a task body outside the per-try catch aborts the
\* crawl through the top-level handler of scanNeighbors: once a task body
\* has thrown, the crawl ends in that handler and in no other way, a normal
\* finished result least of all.
C12_EngineDefectFatal_Claim == (TaskThrew /\ Ended) => pc = "failed"

\* ------------------------------------------------------------------- C13

\* Fixed response contents: the endpoints of the scenario answer every
\* request with their lists, every other endpoint fails every request.
EndpointUp(url) == url \in DOMAIN network

UrlOf(t) == getQueryUrls(t.ip)[t.u]

\* The crawl in which the interleaving of the tasks is the only choice left
OrderNext ==
    \/ ScanStart
    \/ \E k \in 1..Len(tasks) :
          tasks[k].st = "fetch" /\ EndpointUp(UrlOf(tasks[k])) /\ ResponseOk(k)
    \/ \E k \in 1..Len(tasks) :
          tasks[k].st = "fetch" /\ ~EndpointUp(UrlOf(tasks[k])) /\ ResponseError(k)
    \/ \E k \in 1..Len(tasks) : WaitOver(k)
    \/ \E k \in 1..Len(tasks) : TaskBody(k)
    \/ \E k \in 1..Len(tasks) : TaskDone(k)
    \/ ScanFinish

OrderSpec == Init /\ [][OrderNext]_vars

\* What the endpoints of address a report in a crawl that makes requests
ReportedBy(a) ==
    IF retries = 0 THEN {}
    ELSE UNION {IpsOf(ResponseOf(network, url)) :
                   url \in {u \in Range(getQueryUrls(a)) : EndpointUp(u)}}

RECURSIVE Reachable(_)
\* The addresses reachable from S through the reports: no order in it
Reachable(S) ==
    LET T == S \cup UNION {ReportedBy(a) : a \in S}
    IN  IF T = S THEN S ELSE Reachable(T)

\* The final found set as a function of seeds and responses alone
FoundOf ==
    (Reachable(Range(seedNodes)) \ Range(SeedForms(seedNodes))) \ {"0.0.0.0"}

\* The final responsive set as a function of seeds and responses alone
ResponsiveOf ==
    {a \in Reachable(Range(seedNodes)) :
        retries > 0 /\ \E u \in Range(getQueryUrls(a)) : EndpointUp(u)}
    \ Range(SeedForms(seedNodes))

RECURSIVE RunTask(_)
\* queryNodeNeighbors run to its return under the fixed responses
RunTask(t) ==
    IF t.st = "fetch"
    THEN IF EndpointUp(UrlOf(t))
         THEN RunTask(NextIteration(OnResult(t, ResponseOf(network, UrlOf(t))),
                                    retries))
         ELSE RunTask(OnError(t, retries))
    ELSE IF t.st = "wait" THEN RunTask(NextIteration(t, retries))
    ELSE t

RECURSIVE InDispatchOrder(_, _, _)
\* The identity map at idle of the crawl whose tasks complete one after the
\* other in the order of their dispatch, which is the order of foundIps.
InDispatchOrder(found, j, uniq) ==
    IF j > Len(found) THEN uniq
    ELSE LET t == RunTask(StartTask(NewTask(found[j]), retries))
         IN  InDispatchOrder(MergeFound(found, t.ips), j + 1,
                             MergeNeighbors(uniq, t.uniqueNeighbors))

\* C13 as claimed: for fixed seeds and fixed response contents the final
\* found set, responsive set and identity map (keys and the record under
\* each key, after reconciliation) are the same for every order in which
\* the tasks complete: those of the crawl completing in dispatch order.
C13_OrderIndependence_Claim ==
    pc = "done" =>
        /\ Range(foundIps) = FoundOf
        /\ responsiveIps = ResponsiveOf
        /\ Range(uniqueNeighbors) =
               Range(Reconcile(InDispatchOrder(SetAddAll(<<>>, seedNodes), 1, <<>>)))

\* C13, amended: for fixed seeds and fixed response contents the final
\* found set and the final responsive set are the same for every order in
\* which the tasks complete.
C13_OrderIndependence ==
    pc = "done" =>
        /\ Range(foundIps) = FoundOf
        /\ responsiveIps = ResponsiveOf

\* Two seeds queried at once, the task of the second merged before the
\* task of the first: the record kept for 9.9.9.9 is the second seed's.
C13_Witness ==
    /\ pc = "done"
    /\ concurrency = 2
    /\ seedNodes = ScenarioC.seedNodes /\ network = ScenarioC.network
    /\ \E e \in Range(uniqueNeighbors) : e.v.ip = "9.9.9.9" /\ e.v.port = 2
    /\ "9.9.9.9" \in Range(foundIps)

\* ------------------------------------------------------------------- C14

\* The host names the seed lists give, with or without the port
Hosts ==
    {"stacks-node-api.mainnet.stacks.co", "seed-0.mainnet.stacks.co",
     "seed-1.mainnet.stacks.co", "seed-2.mainnet.stacks.co", "seedA", "seedB"}

\* The address is a host followed by ":" and the default RPC port
CarriesPort(a) == \E h \in Hosts : a = WithPort(h)

\* C14: getQueryUrls returns, in order and without duplicates, the address
\* and the address with ":" and the port appended; for an address that
\* already carries the default RPC port these are one candidate endpoint.
C14_QueryUrls_Claim ==
    \A k \in 1..Len(tasks) :
        LET a == tasks[k].ip
            urls == getQueryUrls(a)
        IN  /\ urls[1] = a
            /\ \A j \in 2..Len(urls) : urls[j] = WithPort(a) /\ urls[j] # a
            /\ Len(urls) <= 2
            /\ CarriesPort(a) => Len(urls) = 1 /\ Len(tasks[k].nreq) = 1
            /\ ~CarriesPort(a) => Len(urls) = 2

\* ------------------------------------------------------------------- C15

\* The try of task k that is under way fails in this step
TryFails(k) == ResponseError(k) \/ ResponseMalformed(k)

\* After the failed try i of the loop of line 180, a try of the same
\* endpoint is still to come
TriesRemain(t) == t.i + 1 < retries

\* C15: after a failed try the client waits (1500 ms) exactly when a try
\* remains for that endpoint; after the last failed try of an endpoint it
\* does not wait.
C15_RetryDelay_Claim ==
    [][\A k \in 1..Len(tasks) :
          TryFails(k) => (tasks'[k].st = "wait" <=> TriesRemain(tasks[k]))]_vars

\* ------------------------------------------------------------------- C16

\* The iteration under way is the last one of the loops of lines 179-180
LastIteration(t) == t.u = Len(getQueryUrls(t.ip)) /\ ~TriesRemain(t)

\* C16: a successful response does not end the loop, every remaining try
\* of the endpoint and of the later endpoints is still issued; the neighbor
\* set returned is the union of the IPs of the successful responses (each
\* adds its IPs, a failed try adds nothing); the responsive flag returned
\* is true if and only if at least one request succeeded.
C16_Accumulate_Claim ==
    [][\A k \in 1..Len(tasks) :
          /\ ResponseOk(k) =>
                /\ tasks'[k].st = "returned" <=> LastIteration(tasks[k])
                /\ Range(tasks'[k].ips) =
                       Range(tasks[k].ips) \cup IpsOf(ResponseOf(network, UrlOf(tasks[k])))
          /\ TryFails(k) => tasks'[k].ips = tasks[k].ips
          /\ tasks[k].st = "returned" =>
                /\ \A j \in 1..Len(tasks[k].nreq) : tasks[k].nreq[j] = retries
                /\ tasks[k].responsive <=> tasks[k].ok]_vars

\* ------------------------------------------------------------------- C17

\* queryNodeNeighbors of task t has returned and every request it made failed
Exhausted(t) == t.st = "returned" /\ ~t.ok

\* C17: when every request to every candidate endpoint of an address has
\* failed, queryNodeNeighbors returns responsive = false and empty sets;
\* the task body then leaves found, responsive and the identities as they
\* are, still calls queueQueries() and completes, and the other tasks are
\* left to continue.
C17_ExhaustionNotFatal_Claim ==
    [][\A k \in 1..Len(tasks) :
          Exhausted(tasks[k]) =>
              /\ ~tasks[k].responsive
              /\ tasks[k].ips = <<>> /\ tasks[k].uniqueNeighbors = <<>>
              /\ TaskBody(k) =>
                    /\ foundIps' = foundIps
                    /\ responsiveIps' = responsiveIps
                    /\ uniqueNeighbors' = uniqueNeighbors
                    /\ Range(foundIps') \subseteq queriedIps'
                    /\ tasks'[k].st = "resolved"
                    /\ \A h \in 1..Len(tasks) :
                          h # k /\ tasks[h].st # "queued" => tasks'[h] = tasks[h]]_vars

\* ------------------------------------------------------------------- C18

\* The entries of identity map m that carry IP ip
EntriesOf(m, ip) == {e \in Range(m) : e.v.ip = ip}

\* C18: after the reconciliation pass every IP for which a fully-identified
\* record was known before the pass has exactly one retained entry, and
\* that entry is a fully-identified one.
C18_OneIdentity_Claim ==
    pc = "done" =>
        \A e \in Range(atIdle.uniqueNeighbors) :
            FullyIdentified(e.v) =>
                /\ Cardinality(EntriesOf(uniqueNeighbors, e.v.ip)) = 1
                /\ \A r \in EntriesOf(uniqueNeighbors, e.v.ip) : FullyIdentified(r.v)

\* ------------------------------------------------------------------- C19

\* C19: after the cleanup the final responsive set is a subset of the final
\* found set; removing 0.0.0.0 from found leaves no address in responsive
\* that is absent from found.
C19_ResponsiveInFound_Claim ==
    pc = "done" => responsiveIps \subseteq Range(foundIps)

\* ------------------------------------------------------------------- C20

\* No record of identity map m with this IP has a zero hash, and the IP is
\* not 0.0.0.0
NoUnidentifiedRecord(m, ip) ==
    /\ ip # "0.0.0.0"
    /\ \A r \in EntriesOf(m, ip) : BigInt0x(r.v.public_key_hash) # 0

\* C20: the reconciliation pass removes no entry whose IP has no zero-hash
\* record and is not 0.0.0.0: every entry of such an IP present when the
\* queue went idle is still present after the pass, with the same record.
C20_ReconcileFrame ==
    pc = "done" =>
        \A e \in Range(atIdle.uniqueNeighbors) :
            NoUnidentifiedRecord(atIdle.uniqueNeighbors, e.v.ip) =>
                e \in Range(uniqueNeighbors)

\* A finished crawl whose pass removed entries of one IP while an IP known
\* under identified keys only kept every entry it had.
C20_Witness ==
    /\ pc = "done"
    /\ \E e \in Range(atIdle.uniqueNeighbors) : e \notin Range(uniqueNeighbors)
    /\ \E e \in Range(atIdle.uniqueNeighbors) :
          /\ NoUnidentifiedRecord(atIdle.uniqueNeighbors, e.v.ip)
          /\ EntriesOf(uniqueNeighbors, e.v.ip) =
                EntriesOf(atIdle.uniqueNeighbors, e.v.ip)

=============================================================================
